---- MODULE Spec2Model ----
(***************************************************************************)
(* A model of define (src/define.go): the lemma generator, the in-memory   *)
(* LRU cache, the dedupe guard, the resolver with its provider chain and   *)
(* the atomic flush of the persisted cache.                                *)
(*                                                                         *)
(* Strings are sequences of one-character strings, so that suffix tests,   *)
(* lowercasing, capitalisation and concatenation are computed as the code  *)
(* computes them.  Times and durations are whole numbers of 10 ms.         *)
(***************************************************************************)
EXTENDS Integers, Sequences, FiniteSets, TLC

VARIABLES
    lw,         \* lemma generator: the word handed to lemmaCandidates
    lres,       \* lemma generator: <<"none">> before the call, <<"some", cands>> after
    now,        \* time.Now(), in units of 10 ms
    ticks,      \* how often the clock has advanced (bounded)
    mem,        \* the lruCache: [ll, items, max, ttl]
    recency,    \* history: the keys touched by a get hit or a set, latest first
    lastOp,     \* history: the last lruCache call and the one before it
    ded,        \* deduper.last: key -> time of the last allowed call
    dmu,        \* deduper.mu: 0, or the handler that holds it
    hpc,        \* handler -> where it is in its code
    hkey,       \* handler -> its key
    hnow,       \* handler -> the local `now` of deduper.allow
    hseen,      \* history: handler -> calls of allow finished when its call began
    allowLog,   \* history: the finished calls of allow, [h, key, t, ret, seen]
    noOffline,  \* cfg.noOffline
    disk,       \* the persisted map: key -> [title, body, full, ts, source]
    diskDirty,  \* the dirty flag
    lastTxt,    \* the content of last.txt
    nCalls,     \* how many resolveDefinition calls were made (bounded)
    lastCall,   \* history: the last resolveDefinition call and its result
    fs,         \* the files: path -> [exists, bytes]
    diskMu,     \* diskMu: "free", or who holds it
    fpc,        \* where the flush task is in its code
    buf,        \* the bytes json.Marshal returned to saveDiskCacheAtomic
    snapOld,    \* history: what the cache file held when the save began
    snapNew,    \* history: the map being saved
    crashes,    \* how many times the process died (bounded)
    crashLog,   \* history: the last crash and what the next process loaded
    conns,      \* daemon: how many connections were accepted (bounded)
    hword,      \* daemon: handler -> the bytes it read, then its decoded word
    hres,       \* daemon: handler -> what resolveDefinition returned to it
    notified,   \* daemon: the notifications dispatched, [h, title, body, full]
    resolved    \* history: the finished resolveDefinition calls of the daemon

lemmaVars == <<lw, lres>>
clockVars == <<now, ticks>>
lruVars   == <<mem, recency, lastOp>>
dedupeVars == <<ded, dmu, hpc, hkey, hnow, hseen, allowLog>>
flushVars == <<fs, diskMu, fpc, buf, snapOld, snapNew, crashes, crashLog>>
resolveVars == <<noOffline, disk, diskDirty, lastTxt, nCalls, lastCall>>
daemonVars == <<conns, hword, hres, notified, resolved>>
vars == <<lw, lres, now, ticks, mem, recency, lastOp,
          ded, dmu, hpc, hkey, hnow, hseen, allowLog,
          noOffline, disk, diskDirty, lastTxt, nCalls, lastCall,
          fs, diskMu, fpc, buf, snapOld, snapNew, crashes, crashLog,
          conns, hword, hres, notified, resolved>>

(***************************************************************************)
(* Strings                                                                 *)
(***************************************************************************)
UpperChars == <<"A","B","C","D","E","F","G","H","I","J","K","L","M",
                "N","O","P","Q","R","S","T","U","V","W","X","Y","Z">>
LowerChars == <<"a","b","c","d","e","f","g","h","i","j","k","l","m",
                "n","o","p","q","r","s","t","u","v","w","x","y","z">>

\* strings.ToLower / strings.ToUpper on one ASCII character
LowerOfUpper ==
    [c \in {UpperChars[i] : i \in 1..26} |->
        LowerChars[CHOOSE i \in 1..26 : UpperChars[i] = c]]
UpperOfLower ==
    [c \in {LowerChars[i] : i \in 1..26} |->
        UpperChars[CHOOSE i \in 1..26 : LowerChars[i] = c]]
LowerCh(c) == IF c \in DOMAIN LowerOfUpper THEN LowerOfUpper[c] ELSE c
UpperCh(c) == IF c \in DOMAIN UpperOfLower THEN UpperOfLower[c] ELSE c

ToLower(s) == [i \in 1..Len(s) |-> LowerCh(s[i])]

HasSuffix(s, suf) ==
    /\ Len(s) >= Len(suf)
    /\ SubSeq(s, Len(s) - Len(suf) + 1, Len(s)) = suf

TrimSuffix(s, suf) ==
    IF HasSuffix(s, suf) THEN SubSeq(s, 1, Len(s) - Len(suf)) ELSE s

\* s contains sub as a contiguous substring (strings.Contains)
Contains(s, sub) ==
    \E i \in 1..(Len(s) - Len(sub) + 1) : SubSeq(s, i, i + Len(sub) - 1) = sub

NoDuplicates(q) == \A i, j \in 1..Len(q) : q[i] = q[j] => i = j

(***************************************************************************)
(* Values the parts of the model that a specification leaves alone hold    *)
(***************************************************************************)
LemmaIdle == lw = <<>> /\ lres = <<"none">>
ClockIdle == now = 0 /\ ticks = 0
LruIdle ==
    /\ mem = [ll |-> <<>>, items |-> {}, max |-> 0, ttl |-> 0]
    /\ recency = <<>>
    /\ lastOp = [op |-> "none"]
DedupeIdle ==
    /\ ded = <<>> /\ dmu = 0
    /\ hpc = <<>> /\ hkey = <<>> /\ hnow = <<>> /\ hseen = <<>>
    /\ allowLog = <<>>
ResolveIdle ==
    /\ noOffline = FALSE /\ disk = <<>> /\ diskDirty = FALSE
    /\ lastTxt = <<>> /\ nCalls = 0
    /\ lastCall = [path |-> "none", word |-> <<>>]
FlushIdle ==
    /\ fs = <<>> /\ diskMu = "free" /\ fpc = "idle" /\ buf = <<>>
    /\ snapOld = <<>> /\ snapNew = <<>>
    /\ crashes = 0 /\ crashLog = [at |-> "none"]
DaemonIdle ==
    /\ conns = 0 /\ hword = <<>> /\ hres = <<>>
    /\ notified = <<>> /\ resolved = <<>>

(***************************************************************************)
(* Lemma generator                                                         *)
(***************************************************************************)
\* the loop of lines 242-250: keep the first occurrence of every candidate
RECURSIVE DedupFrom(_, _)
DedupFrom(cands, out) ==
    IF cands = <<>> THEN out
    ELSE IF \E i \in 1..Len(out) : out[i] = Head(cands)
         THEN DedupFrom(Tail(cands), out)
         ELSE DedupFrom(Tail(cands), Append(out, Head(cands)))

\* the "-s" rule without the "ss" guard
StripSNoGuard(w, cands) ==
    IF HasSuffix(w, <<"s">>) /\ Len(w) > 3
    THEN Append(cands, TrimSuffix(w, <<"s">>))
    ELSE cands

StripIES(w, cands) ==
    IF HasSuffix(w, <<"i","e","s">>) /\ Len(w) > 4
    THEN Append(cands, SubSeq(w, 1, Len(w) - 3) \o <<"y">>)
    ELSE cands

StripES(w, cands) ==
    IF HasSuffix(w, <<"e","s">>) /\ Len(w) > 4
    THEN Append(cands, SubSeq(w, 1, Len(w) - 2))
    ELSE cands

StripS(w, cands) ==
    IF HasSuffix(w, <<"s">>) /\ Len(w) > 3 /\ ~HasSuffix(w, <<"s","s">>)
    THEN Append(cands, TrimSuffix(w, <<"s">>))
    ELSE cands

lemmaCandidates(w0) ==
    LET w == ToLower(w0)
    IN  DedupFrom(StripS(w, StripES(w, StripIES(w, <<w>>))), <<>>)

\* words of the examples
Cats    == <<"c","a","t","s">>
Cat     == <<"c","a","t">>
Puppies == <<"p","u","p","p","i","e","s">>
Puppy   == <<"p","u","p","p","y">>
Puppi   == <<"p","u","p","p","i">>
Puppie  == <<"p","u","p","p","i","e">>
Class   == <<"c","l","a","s","s">>

MaxLemmaLen == 5
LemmaAlphabet == {"e", "i", "s", "y", "S"}

RECURSIVE WordsOfLen(_)
WordsOfLen(n) ==
    IF n = 0 THEN {<<>>}
    ELSE {Append(w, c) : w \in WordsOfLen(n - 1), c \in LemmaAlphabet}

LemmaWords ==
    UNION {WordsOfLen(n) : n \in 1..MaxLemmaLen} \cup {Cats, Puppies, Class}

InitLemma ==
    /\ lw \in LemmaWords
    /\ lres = <<"none">>
    /\ ClockIdle /\ LruIdle /\ DedupeIdle /\ ResolveIdle /\ FlushIdle /\ DaemonIdle

CallLemma ==
    /\ lres = <<"none">>
    /\ lres' = <<"some", lemmaCandidates(lw)>>
    /\ UNCHANGED <<lw, daemonVars, clockVars, lruVars, dedupeVars,
                   resolveVars, flushVars>>

NextLemma == CallLemma

SpecLemma == InitLemma /\ [][NextLemma]_vars

\* C3 as stated: the word first, no duplicates, and the three examples,
\* with lemmas("puppies") = ["puppies", "puppy"].
C3_AsStated ==
    lres[1] = "some" =>
        /\ lres[2][1] = ToLower(lw)
        /\ NoDuplicates(lres[2])
        /\ (lw = Cats => lres[2] = <<Cats, Cat>>)
        /\ (lw = Puppies => lres[2] = <<Puppies, Puppy>>)
        /\ (lw = Class => lres[2] = <<Class>>)

\* C3 amended: lemmaCandidates returns the lowercased input word first and no
\* candidate twice; lemmas("cats") = ["cats", "cat"], lemmas("class") =
\* ["class"], and lemmas("puppies") = ["puppies", "puppy", "puppi", "puppie"]
\* (the "-es" and "-s" rules apply to "puppies" as well).
C3_Lemmas ==
    lres[1] = "some" =>
        /\ lres[2][1] = ToLower(lw)
        /\ NoDuplicates(lres[2])
        /\ (lw = Cats => lres[2] = <<Cats, Cat>>)
        /\ (lw = Puppies => lres[2] = <<Puppies, Puppy, Puppi, Puppie>>)
        /\ (lw = Class => lres[2] = <<Class>>)

C3_Witness ==
    /\ lw = Puppies
    /\ lres = <<"some", <<Puppies, Puppy, Puppi, Puppie>>>>

(***************************************************************************)
(* Program constants (durations in units of 10 ms)                         *)
(***************************************************************************)
memCacheMax == 2500
cacheTTL == 259200000
dedupeWindow == 25
offlineRefreshAfter == 4320000

(***************************************************************************)
(* The clock                                                               *)
(***************************************************************************)
Tick(d, max) ==
    /\ ticks < max
    /\ now' = now + d
    /\ ticks' = ticks + 1

(***************************************************************************)
(* lruCache: ll is the recency list (front first), items the key index     *)
(***************************************************************************)
newLRU(max, ttl) == [ll |-> <<>>, items |-> {}, max |-> max, ttl |-> ttl]

ZeroItem == [key |-> <<>>, title |-> <<>>, body |-> <<>>, full |-> <<>>,
             ts |-> 0, src |-> ""]

\* el := c.items[key]: the place in ll of the element the index holds for key
ElemOf(c, key) == CHOOSE i \in 1..Len(c.ll) : c.ll[i].key = key

ListRemove(ll, i) == SubSeq(ll, 1, i - 1) \o SubSeq(ll, i + 1, Len(ll))
MoveToFront(ll, i) == <<ll[i]>> \o ListRemove(ll, i)

\* get that returns the item without refreshing its place in the list
lruGetNoTouch(c, key, t) ==
    IF key \in c.items
    THEN LET el == ElemOf(c, key)
             it == c.ll[el]
         IN  IF t - it.ts > c.ttl
             THEN [c |-> [c EXCEPT !.ll = ListRemove(c.ll, el),
                                   !.items = c.items \ {key}],
                   it |-> ZeroItem, ok |-> FALSE]
             ELSE [c |-> c, it |-> it, ok |-> TRUE]
    ELSE [c |-> c, it |-> ZeroItem, ok |-> FALSE]

\* get that already drops an item whose age equals the TTL
lruGetExpiresEarly(c, key, t) ==
    IF key \in c.items
    THEN LET el == ElemOf(c, key)
             it == c.ll[el]
         IN  IF t - it.ts >= c.ttl
             THEN [c |-> [c EXCEPT !.ll = ListRemove(c.ll, el),
                                   !.items = c.items \ {key}],
                   it |-> ZeroItem, ok |-> FALSE]
             ELSE [c |-> [c EXCEPT !.ll = MoveToFront(c.ll, el)],
                   it |-> it, ok |-> TRUE]
    ELSE [c |-> c, it |-> ZeroItem, ok |-> FALSE]

\* get at time t: [c |-> the cache afterwards, it |-> the item, ok |-> found]
lruGet(c, key, t) ==
    IF key \in c.items
    THEN LET el == ElemOf(c, key)
             it == c.ll[el]
         IN  IF t - it.ts > c.ttl
             THEN [c |-> [c EXCEPT !.ll = ListRemove(c.ll, el),
                                   !.items = c.items \ {key}],
                   it |-> ZeroItem, ok |-> FALSE]
             ELSE [c |-> [c EXCEPT !.ll = MoveToFront(c.ll, el)],
                   it |-> it, ok |-> TRUE]
    ELSE [c |-> c, it |-> ZeroItem, ok |-> FALSE]

\* a loop that removes nothing
EvictNothing(c) == c

\* the loop of lines 344-352
RECURSIVE EvictOverflow(_)
EvictOverflow(c) ==
    IF Len(c.ll) > c.max
    THEN LET old == c.ll[Len(c.ll)]
         IN  EvictOverflow([c EXCEPT !.ll = SubSeq(c.ll, 1, Len(c.ll) - 1),
                                     !.items = c.items \ {old.key}])
    ELSE c

\* set at time t: the cache afterwards
lruSet(c, key, title, body, full, src, t) ==
    IF key \in c.items
    THEN LET el == ElemOf(c, key)
             it == [c.ll[el] EXCEPT !.title = title, !.body = body,
                                    !.full = full, !.ts = t, !.src = src]
         IN  [c EXCEPT !.ll = <<it>> \o ListRemove(c.ll, el)]
    ELSE EvictOverflow(
            [c EXCEPT !.ll = <<[key |-> key, title |-> title, body |-> body,
                                full |-> full, ts |-> t, src |-> src]>> \o c.ll,
                      !.items = c.items \cup {key}])

ListKeys(c) == {c.ll[i].key : i \in 1..Len(c.ll)}
Unexpired(c, t) == \A i \in 1..Len(c.ll) : t - c.ll[i].ts <= c.ttl

(***************************************************************************)
(* The cache on its own: any sequence of get and set calls                 *)
(***************************************************************************)
MaxCap == 3
LruKeys == {Cat, Cats, Class, Puppy}
LruPayloads ==
    {[title |-> <<"t", "1">>, body |-> <<"b", "1">>, full |-> <<"f", "1">>,
      src |-> "online"]}
LruSteps == {cacheTTL}
MaxLruTicks == 2

\* history: move key to the front of the touch order
Touch(order, key) ==
    <<key>> \o SelectSeq(order, LAMBDA k : k # key)

\* history: what the call before the last one was
PrevOp(op) == IF op.op = "none" THEN <<"none">> ELSE <<op.op, op.key, op.ok>>

InitLRU ==
    /\ LemmaIdle /\ DedupeIdle /\ ResolveIdle /\ FlushIdle /\ DaemonIdle
    /\ ClockIdle
    /\ \E cap \in 1..MaxCap : mem = newLRU(cap, cacheTTL)
    /\ recency = <<>>
    /\ lastOp = [op |-> "none"]

LruGetCall(key) ==
    LET r == lruGet(mem, key, now)
    IN  /\ mem' = r.c
        /\ recency' = IF r.ok THEN Touch(recency, key) ELSE recency
        /\ lastOp' = [op |-> "get", key |-> key, ok |-> r.ok,
                      prev |-> PrevOp(lastOp)]
        /\ UNCHANGED <<lemmaVars, daemonVars, clockVars, dedupeVars,
                       resolveVars, flushVars>>

LruSetCall(key, p) ==
    /\ mem' = lruSet(mem, key, p.title, p.body, p.full, p.src, now)
    /\ recency' = Touch(recency, key)
    /\ lastOp' = [op |-> "set", key |-> key, ok |-> TRUE,
                  prev |-> PrevOp(lastOp)]
    /\ UNCHANGED <<lemmaVars, daemonVars, clockVars, dedupeVars, resolveVars,
                   flushVars>>

LruTick(d) ==
    /\ Tick(d, MaxLruTicks)
    /\ UNCHANGED <<lemmaVars, daemonVars, lruVars, dedupeVars, resolveVars,
                   flushVars>>

NextLRU ==
    \/ \E key \in LruKeys : LruGetCall(key)
    \/ \E key \in LruKeys, p \in LruPayloads : LruSetCall(key, p)
    \/ \E d \in LruSteps : LruTick(d)

SpecLRU == InitLRU /\ [][NextLRU]_vars

\* the keys of `order` (latest touch first) that the cache `c` holds
CachedOrder(order, c) == SelectSeq(order, LAMBDA k : k \in c.items)

\* this step is the set of a key the cache does not hold, made when the cache
\* holds max >= 2 distinct unexpired keys
FullSet ==
    /\ lastOp'.op = "set"
    /\ lastOp'.key \notin mem.items
    /\ mem.max >= 2
    /\ Cardinality(mem.items) = mem.max
    /\ Unexpired(mem, now)

\* C7: the set of an (N+1)-th distinct key into a cache of capacity N >= 2
\* holding N unexpired keys removes exactly one key, the one least recently
\* touched by get or set; a key that a get returned just before the insert
\* is not the one removed.
C7_EvictsLRU ==
    [][FullSet =>
        LET o == CachedOrder(recency, mem)
        IN  /\ Len(o) = mem.max
            /\ mem'.items = (mem.items \ {o[Len(o)]}) \cup {lastOp'.key}
            /\ ListKeys(mem') = mem'.items
            /\ (lastOp.op = "get" /\ lastOp.ok => lastOp.key \in mem'.items)
      ]_vars

\* capacity 3, the keys cats, class, cat touched in this order, the last touch
\* a get of cat; then puppy is set: cats goes, cat and class stay
C7_Witness ==
    /\ now = 0
    /\ mem.max = 3
    /\ lastOp.op = "set" /\ lastOp.key = Puppy
    /\ lastOp.prev = <<"get", Cat, TRUE>>
    /\ recency = <<Puppy, Cat, Class, Cats>>
    /\ mem.items = {Puppy, Cat, Class}

(***************************************************************************)
(* deduper, called by concurrent connection handlers                       *)
(***************************************************************************)
Handlers == {1, 2}
CatsCap == <<"C","a","t","s">>
DedupeWords == {Cat, Cats, CatsCap}
DedupeSteps == {1, dedupeWindow - 1}
MaxDedupeTicks == 2
MaxAllowCalls == 3

\* sync.Mutex.Lock returns only while nobody holds the mutex (0: nobody)
MutexNoExclusion(mu) == TRUE
MutexFree(mu) == mu = 0

\* the test of line 678 that keeps the window open whatever the record says
InWindowNever(last, key, t) == FALSE
InWindow(last, key, t) ==
    key \in DOMAIN last /\ t - last[key] < dedupeWindow

\* d.last[key] = t
StoreLast(last, key, t) ==
    [k \in DOMAIN last \cup {key} |-> IF k = key THEN t ELSE last[k]]

InitDedupe ==
    /\ LemmaIdle /\ LruIdle /\ ResolveIdle /\ FlushIdle /\ DaemonIdle
    /\ now = 0 /\ ticks = 0
    /\ ded = <<>>
    /\ dmu = 0
    /\ hpc = [h \in Handlers |-> "idle"]
    /\ hkey = [h \in Handlers |-> <<>>]
    /\ hnow = [h \in Handlers |-> 0]
    /\ hseen = [h \in Handlers |-> 0]
    /\ allowLog = <<>>

InFlight == {h \in Handlers : hpc[h] # "idle"}

\* lines 823-824: key := strings.ToLower(word); the handler calls ded.allow(key)
HandlerAllow(h, word) ==
    /\ hpc[h] = "idle"
    /\ Len(allowLog) + Cardinality(InFlight) < MaxAllowCalls
    /\ hkey' = [hkey EXCEPT ![h] = ToLower(word)]
    /\ hseen' = [hseen EXCEPT ![h] = Len(allowLog)]
    /\ hpc' = [hpc EXCEPT ![h] = "lock"]
    /\ UNCHANGED <<lemmaVars, daemonVars, clockVars, lruVars, resolveVars,
                   flushVars, ded, dmu, hnow, allowLog>>

\* line 675: d.mu.Lock()
AllowLock(h) ==
    /\ hpc[h] = "lock"
    /\ MutexFree(dmu)
    /\ dmu' = h
    /\ hpc' = [hpc EXCEPT ![h] = "check"]
    /\ UNCHANGED <<lemmaVars, daemonVars, clockVars, lruVars, resolveVars,
                   flushVars, ded, hkey, hnow, hseen,
                   allowLog>>

\* lines 677-680: now := time.Now(); inside the window: return false (and unlock)
AllowCheck(h) ==
    /\ hpc[h] = "check"
    /\ hnow' = [hnow EXCEPT ![h] = now]
    /\ IF InWindow(ded, hkey[h], now)
       THEN /\ allowLog' = Append(allowLog,
                    [h |-> h, key |-> hkey[h], t |-> now, ret |-> FALSE,
                     seen |-> hseen[h]])
            /\ dmu' = 0
            /\ hpc' = [hpc EXCEPT ![h] = "idle"]
       ELSE /\ hpc' = [hpc EXCEPT ![h] = "store"]
            /\ UNCHANGED <<dmu, allowLog>>
    /\ UNCHANGED <<lemmaVars, daemonVars, clockVars, lruVars, resolveVars,
                   flushVars, ded, hkey, hseen>>

\* lines 681-682: d.last[key] = now; return true (and unlock)
AllowStore(h) ==
    /\ hpc[h] = "store"
    /\ ded' = StoreLast(ded, hkey[h], hnow[h])
    /\ allowLog' = Append(allowLog,
            [h |-> h, key |-> hkey[h], t |-> hnow[h], ret |-> TRUE,
             seen |-> hseen[h]])
    /\ dmu' = 0
    /\ hpc' = [hpc EXCEPT ![h] = "idle"]
    /\ UNCHANGED <<lemmaVars, daemonVars, clockVars, lruVars, resolveVars,
                   flushVars, hkey, hnow, hseen>>

DedupeTick(d) ==
    /\ Tick(d, MaxDedupeTicks)
    /\ UNCHANGED <<lemmaVars, daemonVars, lruVars, dedupeVars, resolveVars,
                   flushVars>>

NextDedupe ==
    \/ \E h \in Handlers, w \in DedupeWords : HandlerAllow(h, w)
    \/ \E h \in Handlers : AllowLock(h)
    \/ \E h \in Handlers : AllowCheck(h)
    \/ \E h \in Handlers : AllowStore(h)
    \/ \E d \in DedupeSteps : DedupeTick(d)

SpecDedupe == InitDedupe /\ [][NextDedupe]_vars

\* the calls for `key` that returned true among the first n calls
AllowedBefore(key, n) ==
    {i \in 1..n : allowLog[i].key = key /\ allowLog[i].ret}

Max(S) == CHOOSE x \in S : \A y \in S : y <= x

\* C8: for every key, a call returns true when no call for the key returned
\* true before, false when it is made less than the window after the last call
\* that returned true for the key, and true once the window has elapsed; calls
\* that return false and calls for other keys change nothing for the key, and
\* the key's record is the time of its last call that returned true.
C8_AllowWindow ==
    /\ \A j \in 1..Len(allowLog) :
        LET k == allowLog[j].key
            prior == AllowedBefore(k, j - 1)
        IN  allowLog[j].ret <=>
                \/ prior = {}
                \/ allowLog[j].t - allowLog[Max(prior)].t >= dedupeWindow
    /\ \A k \in {ToLower(w) : w \in DedupeWords} :
        LET allowed == AllowedBefore(k, Len(allowLog))
        IN  IF allowed = {} THEN k \notin DOMAIN ded
            ELSE k \in DOMAIN ded /\ ded[k] = allowLog[Max(allowed)].t

\* allow("cats") at 0 returns true, at 240 ms false, at 250 ms true
C8_Witness ==
    /\ Len(allowLog) = 3
    /\ \A j \in 1..3 : allowLog[j].key = Cats
    /\ allowLog[1].t = 0 /\ allowLog[1].ret
    /\ allowLog[2].t = dedupeWindow - 1 /\ ~allowLog[2].ret
    /\ allowLog[3].t = dedupeWindow /\ allowLog[3].ret

\* C9: concurrent calls of allow are serialized (one handler at a time is
\* between Lock and Unlock); any two calls that return true for the same key
\* are at least one window apart, and every other call for the key made less
\* than a window after a call that returned true returns false.
C9_Serialized ==
    /\ Cardinality({h \in Handlers : hpc[h] \in {"check", "store"}}) <= 1
    /\ \A h \in Handlers : hpc[h] \in {"check", "store"} => dmu = h
    /\ \A i, j \in 1..Len(allowLog) :
        (i < j /\ allowLog[i].key = allowLog[j].key /\ allowLog[i].ret) =>
            /\ allowLog[i].t <= allowLog[j].t
            /\ allowLog[j].ret => allowLog[j].t - allowLog[i].t >= dedupeWindow
            /\ allowLog[j].t - allowLog[i].t < dedupeWindow => ~allowLog[j].ret

\* two handlers called allow("cats") before either call had returned: one got
\* true, the other false
C9_Witness ==
    /\ Len(allowLog) = 2
    /\ allowLog[1].h # allowLog[2].h
    /\ allowLog[1].key = Cats /\ allowLog[2].key = Cats
    /\ allowLog[1].seen = 0 /\ allowLog[2].seen = 0
    /\ allowLog[1].ret /\ ~allowLog[2].ret

(***************************************************************************)
(* Text shaping.  The characters outside ASCII are written as the tokens   *)
(* "->" (U+2192), "book", "cloud", "receipt", "cabinet", "question"        *)
(* (the emoji) and "..." (U+2026); they occur in the fixed decoration only. *)
(* The text of a provider is a sequence of bytes: an ASCII character is    *)
(* one byte, and the two-byte character U+00E9 is written as its two       *)
(* bytes, LeadByte and ContByte.  len(s) and s[:n] count bytes.            *)
(***************************************************************************)
bodyMaxChars == 1400

LeadByte == "C3"
ContByte == "A9"

IsSpace(c) == c \in {" ", "\n", "\t", "\r"}

RECURSIVE TrimLeft(_)
TrimLeft(s) == IF s # <<>> /\ IsSpace(Head(s)) THEN TrimLeft(Tail(s)) ELSE s
RECURSIVE TrimRight(_)
TrimRight(s) ==
    IF s # <<>> /\ IsSpace(s[Len(s)]) THEN TrimRight(SubSeq(s, 1, Len(s) - 1))
    ELSE s
TrimSpace(s) == TrimRight(TrimLeft(s))

cap1(s) == IF s = <<>> THEN s ELSE <<UpperCh(s[1])>> \o Tail(s)

ClickMarker ==
    <<"\n", "\n", "...", " ", "(", "c", "l", "i", "c", "k", " ", "t", "o", " ",
      "o", "p", "e", "n", " ", "f", "u", "l", "l", ")">>

clampBody(s0) ==
    LET s == TrimSpace(s0)
    IN  IF Len(s) <= bodyMaxChars THEN s
        ELSE TrimSpace(SubSeq(s, 1, bodyMaxChars - 80)) \o ClickMarker

sourceEmoji(src) ==
    CASE src = "online" -> "cloud"
      [] src = "wiktionary" -> "receipt"
      [] src = "offline" -> "cabinet"
      [] OTHER -> "question"

NotFoundText ==
    <<"N", "o", " ", "d", "e", "f", "i", "n", "i", "t", "i", "o", "n", " ",
      "f", "o", "u", "n", "d", ".">>

ArrowSep == <<" ", "->", " ">>
BodyOpen == <<"<", "b", ">", "<", "i", ">">>
BodyClose == <<"<", "/", "i", ">", "<", "/", "b", ">", "\n">>

\* the header that always shows the requested word alone
showWordPlain(word, used) == cap1(word)

\* lines 649-652
showWord(word, used) ==
    IF used # <<>> /\ ToLower(word) # used
    THEN cap1(word) \o ArrowSep \o cap1(used)
    ELSE cap1(word)

\* lines 654, 657, 658: (title, body, full) of a chain result
makeFull(out) == TrimSpace(out)
makeBody(word, used, out) ==
    BodyOpen \o showWord(word, used) \o BodyClose \o clampBody(makeFull(out))
makeTitle(word, source) ==
    <<"book", " ">> \o cap1(word) \o <<" ", sourceEmoji(source)>>

(***************************************************************************)
(* Providers.  What a provider answers for a candidate is an input of the  *)
(* call: resp[<<provider, candidate>>] says whether it has a definition.   *)
(* A provider returns trimmed non-empty text, or fails (the empty text).   *)
(***************************************************************************)
Providers == <<"online", "wiktionary", "offline">>

Cafe == <<"c", "a", "f", "e">>
LongLen == bodyMaxChars + 100

\* a definition of LongLen bytes whose two-byte character occupies the bytes
\* bodyMaxChars - 80 and bodyMaxChars - 79
LongText ==
    [i \in 1..LongLen |->
        IF i = bodyMaxChars - 80 THEN LeadByte
        ELSE IF i = bodyMaxChars - 79 THEN ContByte
        ELSE "a"]

\* the text each provider has for a candidate it knows
primaryText(cand) == <<"n", "o", "u", "n", "\n">> \o cand
wiktionaryText(cand) == IF cand = Cafe THEN LongText ELSE <<"*", " ">> \o cand
offlineText(cand) == <<"1", ".", " ">> \o cand

lookupPrimary(cand, resp) ==
    IF resp[<<"online", cand>>] THEN TrimSpace(primaryText(cand)) ELSE <<>>
lookupWiktionary(cand, resp) ==
    IF resp[<<"wiktionary", cand>>] THEN TrimSpace(wiktionaryText(cand)) ELSE <<>>
offlineLookup(cand, resp) ==
    IF resp[<<"offline", cand>>] THEN TrimSpace(offlineText(cand)) ELSE <<>>

lookup(prov, cand, resp) ==
    CASE prov = "online" -> lookupPrimary(cand, resp)
      [] prov = "wiktionary" -> lookupWiktionary(cand, resp)
      [] prov = "offline" -> offlineLookup(cand, resp)

\* F applied to the value of v (v is evaluated once)
With(v, F(_)) == CHOOSE y \in {F(x) : x \in {v}} : TRUE

\* one `for _, cand := range lemmaCandidates(word)` loop: r is
\* [out, used, source, calls]; the loop stops at the first non-empty answer
RECURSIVE tryCandidates(_, _, _, _, _)
tryCandidates(prov, cands, i, resp, r) ==
    IF i > Len(cands) THEN r
    ELSE With(lookup(prov, cands[i], resp), LAMBDA o :
            With(Append(r.calls, [prov |-> prov, cand |-> cands[i],
                                  ok |-> o # <<>>]), LAMBDA calls :
                IF o # <<>>
                THEN [out |-> o, used |-> cands[i], source |-> prov,
                      calls |-> calls]
                ELSE tryCandidates(prov, cands, i + 1, resp,
                                   [out |-> r.out, used |-> r.used,
                                    source |-> r.source, calls |-> calls])))

\* a chain that asks every provider about one candidate before the next
tryProviders(provs, cand, resp, r) ==
    With(tryCandidates(provs[1], <<cand>>, 1, resp, r), LAMBDA r1 :
        IF r1.out # <<>> THEN r1
        ELSE With(tryCandidates(provs[2], <<cand>>, 1, resp, r1), LAMBDA r2 :
            IF r2.out # <<>> \/ Len(provs) < 3 THEN r2
            ELSE tryCandidates(provs[3], <<cand>>, 1, resp, r2)))
RECURSIVE tryInterleaved(_, _, _, _, _)
tryInterleaved(provs, cands, i, resp, r) ==
    IF i > Len(cands) THEN r
    ELSE With(tryProviders(provs, cands[i], resp, r), LAMBDA r1 :
            IF r1.out # <<>> THEN r1
            ELSE tryInterleaved(provs, cands, i + 1, resp, r1))
runChainInterleaved(noOff, word, resp) ==
    tryInterleaved(IF noOff THEN SubSeq(Providers, 1, 2) ELSE Providers,
                   lemmaCandidates(word), 1, resp,
                   [out |-> <<>>, used |-> <<>>, source |-> "none", calls |-> <<>>])

\* lines 618-643
runChain(noOff, word, resp) ==
    With(lemmaCandidates(word), LAMBDA cands :
    With(tryCandidates("online", cands, 1, resp,
             [out |-> <<>>, used |-> <<>>, source |-> "none", calls |-> <<>>]),
         LAMBDA r1 :
    With(IF r1.out = <<>>
         THEN tryCandidates("wiktionary", cands, 1, resp, r1) ELSE r1,
         LAMBDA r2 :
            IF r2.out = <<>> /\ ~noOff
            THEN tryCandidates("offline", cands, 1, resp, r2) ELSE r2)))

\* a chain end that leaves an empty result empty
orNotFoundMissing(r, word) == r

\* lines 645-647
orNotFound(r, word) ==
    IF r.out = <<>>
    THEN [out |-> NotFoundText, used |-> word, source |-> "none",
          calls |-> r.calls]
    ELSE r

\* a freshness rule that knows the 30-day TTL only
diskFreshTTLOnly(de, t) == t - de.ts <= cacheTTL

\* lines 611-612: may the persisted entry be served at time t
diskFresh(de, t) ==
    IF de.source = "offline" /\ t - de.ts > offlineRefreshAfter THEN FALSE
    ELSE t - de.ts <= cacheTTL

\* a put that leaves the persisted map as it was
diskPutDropped(d, key, e) == d

\* disk[key] = e
diskPut(d, key, e) ==
    [k \in DOMAIN d \cup {key} |-> IF k = key THEN e ELSE d[k]]

\* lines 654-664: the chain result r shaped, cached and returned
storeResult(m, d, key, word, r, t) ==
    With(<<makeTitle(word, r.source), makeBody(word, r.used, r.out),
           makeFull(r.out)>>, LAMBDA tbf :
        [mem |-> lruSet(m, key, tbf[1], tbf[2], tbf[3], r.source, t),
         disk |-> diskPut(d, key, [title |-> tbf[1], body |-> tbf[2],
                                   full |-> tbf[3], ts |-> t,
                                   source |-> r.source]),
         dirty |-> TRUE, last |-> tbf[3],
         title |-> tbf[1], body |-> tbf[2], full |-> tbf[3],
         source |-> r.source, used |-> r.used, calls |-> r.calls,
         path |-> "chain", stamp |-> t])

\* lines 618-664: both tiers missed; the chain runs and its result is stored
resolveMiss(noOff, m, d, key, word, resp, t) ==
    With(runChain(noOff, word, resp), LAMBDA rc :
        With(orNotFound(rc, word), LAMBDA r :
            storeResult(m, d, key, word, r, t)))

\* resolveDefinition at time t with the providers answering resp: the state
\* it leaves (mem, disk, dirty, last) and what it returns; used, calls, path
\* and stamp (the ts of the memory item that now holds the key) are recorded
\* for the properties
resolveDefinition(noOff, m, d, dirty, last, word, resp, t) ==
    With(ToLower(word), LAMBDA key :
    With(lruGet(m, key, t), LAMBDA g :
        IF g.ok
        THEN [mem |-> g.c, disk |-> d, dirty |-> dirty, last |-> last,
              title |-> g.it.title, body |-> g.it.body, full |-> g.it.full,
              source |-> g.it.src, used |-> <<>>, calls |-> <<>>,
              path |-> "mem", stamp |-> g.it.ts]
        ELSE IF key \in DOMAIN d /\ diskFresh(d[key], t)
        THEN With(d[key], LAMBDA de :
                 [mem |-> lruSet(g.c, key, de.title, de.body, de.full,
                                 de.source, t),
                  disk |-> d, dirty |-> dirty, last |-> last,
                  title |-> de.title, body |-> de.body, full |-> de.full,
                  source |-> de.source, used |-> <<>>, calls |-> <<>>,
                  path |-> "disk", stamp |-> t])
        ELSE resolveMiss(noOff, g.c, d, key, word, resp, t)))

(***************************************************************************)
(* The resolver: a sequence of resolveDefinition calls on one memory       *)
(* cache and one persisted map, with the clock advancing in between        *)
(***************************************************************************)
Legends == <<"l","e","g","e","n","d","s">>
Legend  == <<"l","e","g","e","n","d">>
Zzqx    == <<"z","z","q","x">>
ZzqxCap == <<"Z","z","q","x">>

ResolveWords == {Legends, ZzqxCap}
ResolveSteps == {1, cacheTTL}
MaxResolves == 2
MaxResolveTicks == 1

Range(q) == {q[i] : i \in 1..Len(q)}

\* what the providers can be asked about word
Questions(word) ==
    {<<Providers[i], c>> : i \in 1..3, c \in Range(lemmaCandidates(word))}

\* the answers with which only provider src knows the word ("none": nobody)
OnlyFrom(src, word) == [q \in Questions(word) |-> q[1] = src]

\* the ways the providers answer for the candidates of word: nobody has a
\* definition, exactly one provider has one for exactly one candidate, one
\* provider has one for every candidate, or all have one for every candidate
Responses(word) ==
    {[q \in Questions(word) |-> FALSE], [q \in Questions(word) |-> TRUE]}
    \cup {[q \in Questions(word) |-> q = q1] : q1 \in Questions(word)}
    \cup {OnlyFrom(Providers[i], word) : i \in 1..3}

\* the persisted entry an earlier process left when it resolved word from src
\* at time ts
earlierEntry(word, src, ts) ==
    resolveDefinition(FALSE, newLRU(memCacheMax, cacheTTL), <<>>, FALSE, <<>>,
                      word, OnlyFrom(src, word), ts).disk[ToLower(word)]

SourceKinds == {"online", "wiktionary", "offline", "none"}
StartTime == cacheTTL
InitAges == {offlineRefreshAfter, cacheTTL}

Worlds == [word \in ResolveWords |-> Responses(word)]

\* loadDiskCache at the start of the process: nothing, or what earlier
\* processes wrote
LoadedDisks ==
    {<<>>} \cup
    {diskPut(<<>>, w, earlierEntry(w, src, StartTime - age)) :
        w \in {Legends, Zzqx}, src \in SourceKinds, age \in InitAges}

\* lines 774 and 785-787 (and parseArgs for cfg.noOffline)
Init ==
    /\ LemmaIdle /\ DedupeIdle /\ FlushIdle /\ DaemonIdle
    /\ now = StartTime /\ ticks = 0
    /\ mem = newLRU(memCacheMax, cacheTTL)
    /\ recency = <<>> /\ lastOp = [op |-> "none"]
    /\ noOffline \in BOOLEAN
    /\ disk \in LoadedDisks
    /\ diskDirty = FALSE
    /\ lastTxt = <<>>
    /\ nCalls = 0
    /\ lastCall = [path |-> "none", word |-> <<>>]

\* one call of resolveDefinition (line 829, line 853)
Resolve(word, resp) ==
    \E r \in {resolveDefinition(noOffline, mem, disk, diskDirty, lastTxt,
                                word, resp, now)} :
        /\ nCalls < MaxResolves
        /\ nCalls' = nCalls + 1
        /\ mem' = r.mem
        /\ disk' = r.disk
        /\ diskDirty' = r.dirty
        /\ lastTxt' = r.last
        /\ lastCall' = [word |-> word, title |-> r.title, body |-> r.body,
                        full |-> r.full, source |-> r.source, used |-> r.used,
                        calls |-> r.calls, path |-> r.path, stamp |-> r.stamp,
                        at |-> now, prev |-> lastCall.word]
        /\ UNCHANGED <<lemmaVars, daemonVars, clockVars, recency, lastOp,
                       dedupeVars,
                       noOffline, flushVars>>

ResolveTick(d) ==
    /\ Tick(d, MaxResolveTicks)
    /\ UNCHANGED <<lemmaVars, daemonVars, lruVars, dedupeVars, resolveVars,
                   flushVars>>

Next ==
    \/ \E word \in ResolveWords : \E resp \in Worlds[word] : Resolve(word, resp)
    \/ \E d \in ResolveSteps : ResolveTick(d)

Spec == Init /\ [][Next]_vars

Returned(c) == <<c.title, c.body, c.full, c.source>>
HasPrefix(s, pre) == Len(s) >= Len(pre) /\ SubSeq(s, 1, Len(pre)) = pre

\* this step is a call of resolveDefinition
IsCall == nCalls' = nCalls + 1

\* C1: when resolveDefinition(W) is called again right after a call for the
\* same W, no later than the TTL after the time stamp of the memory item that
\* the first call returned or stored, the second call returns the same
\* (title, body, full, source) and asks no provider.
C1_Idempotent ==
    [][(/\ IsCall
        /\ lastCall.path # "none"
        /\ lastCall'.word = lastCall.word
        /\ now - lastCall.stamp <= cacheTTL)
       => /\ Returned(lastCall') = Returned(lastCall)
          /\ lastCall'.calls = <<>>
      ]_vars

\* "Zzqx" resolved to source none, and resolved again exactly one TTL later:
\* served from memory, no provider asked
C1_Witness ==
    /\ nCalls = 2
    /\ lastCall.word = ZzqxCap /\ lastCall.prev = ZzqxCap
    /\ lastCall.source = "none"
    /\ lastCall.path = "mem" /\ lastCall.calls = <<>>
    /\ lastCall.at = lastCall.stamp + cacheTTL

\* the provider calls of a full chain run, in the order of the code
RECURSIVE AllCalls(_, _)
AllCalls(provs, cands) ==
    IF provs = <<>> THEN <<>>
    ELSE [i \in 1..Len(cands) |-> <<Head(provs), cands[i]>>]
            \o AllCalls(Tail(provs), cands)

\* C2: the provider calls of a chain run are a prefix of: every candidate, in
\* candidate order, against the primary, then every candidate against the
\* secondary, then (unless noOffline) every candidate against the offline
\* provider; every call but the last failed, and the run ends early only
\* after a call that returned text.
C2_ChainOrder ==
    lastCall.path = "chain" =>
        LET calls == lastCall.calls
            n == Len(calls)
            all == AllCalls(IF noOffline THEN SubSeq(Providers, 1, 2)
                            ELSE Providers,
                            lemmaCandidates(lastCall.word))
        IN  /\ 1 <= n /\ n <= Len(all)
            /\ \A i \in 1..n : <<calls[i].prov, calls[i].cand>> = all[i]
            /\ \A i \in 1..(n - 1) : ~calls[i].ok
            /\ calls[n].ok \/ n = Len(all)

\* "legends": both candidates failed against the primary and the secondary,
\* "legends" failed against the offline provider, "legend" succeeded there
C2_Witness ==
    /\ lastCall.path = "chain"
    /\ lastCall.word = Legends
    /\ Len(lastCall.calls) = 6
    /\ lastCall.calls[5] = [prov |-> "offline", cand |-> Legends, ok |-> FALSE]
    /\ lastCall.calls[6] = [prov |-> "offline", cand |-> Legend, ok |-> TRUE]
    /\ lastCall.source = "offline"

\* the chain ran, the primary failed for the word and succeeded for a later
\* candidate
PrimaryLemmaHit ==
    /\ lastCall.path = "chain"
    /\ Len(lastCall.calls) >= 2
    /\ \A i \in 1..Len(lastCall.calls) : lastCall.calls[i].prov = "online"
    /\ lastCall.calls[Len(lastCall.calls)].ok
UsedLemma == lastCall.calls[Len(lastCall.calls)].cand
ArrowForm == cap1(lastCall.word) \o ArrowSep \o cap1(UsedLemma)

AllFailed ==
    /\ lastCall.path = "chain"
    /\ \A i \in 1..Len(lastCall.calls) : ~lastCall.calls[i].ok

\* C5 as stated: source none and the body equal to the fixed text
C5_AsStated ==
    AllFailed => lastCall.source = "none" /\ lastCall.body = NotFoundText

\* C5 amended: when every provider fails for every lemma candidate,
\* resolveDefinition returns a result whose source is none, whose full text
\* equals "No definition found." and whose body is that text after a header
\* line that names the word.
C5_NotFound ==
    AllFailed =>
        /\ lastCall.source = "none"
        /\ lastCall.full = NotFoundText
        /\ HasPrefix(lastCall.body, BodyOpen \o cap1(lastCall.word))
        /\ HasSuffix(lastCall.body, BodyClose \o NotFoundText)

C5_Witness ==
    /\ AllFailed
    /\ lastCall.word = ZzqxCap
    /\ ~noOffline
    /\ Len(lastCall.calls) = 3
    /\ lastCall.source = "none"
    /\ lastCall.full = NotFoundText

\* C6: a call whose key the memory tier does not hold and for which the
\* persisted map holds an entry returns the entry, stores it in the memory
\* tier and asks no provider exactly when the entry is fresh (source offline:
\* at most 12 hours old; otherwise at most 30 days old); otherwise the
\* provider chain runs.
C6_DiskFreshness ==
    [][(/\ IsCall
        /\ ToLower(lastCall'.word) \notin mem.items
        /\ ToLower(lastCall'.word) \in DOMAIN disk)
       => LET key == ToLower(lastCall'.word)
              de == disk[key]
              age == now - de.ts
              fresh == IF de.source = "offline"
                       THEN age <= offlineRefreshAfter
                       ELSE age <= cacheTTL
          IN  IF fresh
              THEN /\ lastCall'.path = "disk"
                   /\ Returned(lastCall') = <<de.title, de.body, de.full, de.source>>
                   /\ lastCall'.calls = <<>>
                   /\ key \in mem'.items
                   /\ LET it == mem'.ll[ElemOf(mem', key)]
                      IN  <<it.title, it.body, it.full, it.src>> =
                             <<de.title, de.body, de.full, de.source>>
              ELSE /\ lastCall'.path = "chain"
                   /\ lastCall'.calls # <<>>
      ]_vars

\* an offline entry exactly 12 hours old was served from the persisted map
C6_Witness ==
    /\ lastCall.path = "disk"
    /\ lastCall.source = "offline"
    /\ ToLower(lastCall.word) \in DOMAIN disk
    /\ lastCall.at - disk[ToLower(lastCall.word)].ts = offlineRefreshAfter
    /\ ToLower(lastCall.word) \in mem.items
    /\ lastCall.calls = <<>>

(***************************************************************************)
(* The persisted cache file.  A file is [exists, bytes]; the bytes of a    *)
(* snapshot are "{", one <<key, fields>> per entry in key order, "}".      *)
(* os.WriteFile truncates the file and then writes the bytes piece by      *)
(* piece; os.Rename replaces the target in one step.                       *)
(***************************************************************************)
CachePath == <<"cache.json">>

\* a save that writes the snapshot straight into the cache file
tmpPathInPlace(path) == path

\* line 281
tmpPath(path) == path \o <<".tmp">>

NoFile == [exists |-> FALSE, bytes |-> <<>>]
KeyOrder == <<Cafe, Legends, Zzqx>>

\* the byte at place i of s belongs to a well-formed UTF-8 character
ValidUTF8At(s, i) ==
    CASE s[i] = LeadByte -> i < Len(s) /\ s[i + 1] = ContByte
      [] s[i] = ContByte -> i > 1 /\ s[i - 1] = LeadByte
      [] OTHER -> TRUE

\* encoding/json on a string: "<", ">" and "&" are written as \u escapes,
\* and a byte that is not part of a well-formed UTF-8 character is written
\* as the escape of U+FFFD
EscapeCh(c) ==
    CASE c = "<" -> "\\u003c" [] c = ">" -> "\\u003e" [] c = "&" -> "\\u0026"
      [] OTHER -> c
UnescapeCh(c) ==
    CASE c = "\\u003c" -> "<" [] c = "\\u003e" -> ">" [] c = "\\u0026" -> "&"
      [] c = "\\ufffd" -> "U+FFFD"
      [] OTHER -> c
encodeString(s) ==
    [i \in 1..Len(s) |-> IF ValidUTF8At(s, i) THEN EscapeCh(s[i]) ELSE "\\ufffd"]
decodeString(s) == [i \in 1..Len(s) |-> UnescapeCh(s[i])]

encodeEntry(e) ==
    [title |-> encodeString(e.title), body |-> encodeString(e.body),
     full |-> encodeString(e.full), ts |-> <<"RFC3339Nano", e.ts>>,
     source |-> e.source]
decodeEntry(j) ==
    [title |-> decodeString(j.title), body |-> decodeString(j.body),
     full |-> decodeString(j.full), ts |-> j.ts[2], source |-> j.source]

\* json.Marshal(m): the keys of a map are written in sorted order
jsonMarshal(m) ==
    LET keys == SelectSeq(KeyOrder, LAMBDA k : k \in DOMAIN m)
    IN  <<"{">> \o [i \in 1..Len(keys) |-> <<keys[i], encodeEntry(m[keys[i]])>>]
            \o <<"}">>

\* json.Unmarshal(b, &m): [ok, m]; bytes that stop before the closing brace
\* do not parse
jsonUnmarshal(b) ==
    IF Len(b) >= 2 /\ b[1] = "{" /\ b[Len(b)] = "}"
    THEN [ok |-> TRUE,
          m |-> [k \in {b[i][1] : i \in 2..(Len(b) - 1)} |->
                    decodeEntry((CHOOSE p \in {b[i] : i \in 2..(Len(b) - 1)} :
                                    p[1] = k)[2])]]
    ELSE [ok |-> FALSE, m |-> <<>>]

\* lines 268-278
loadDiskCache(files, path) ==
    IF ~files[path].exists THEN <<>>
    ELSE LET u == jsonUnmarshal(files[path].bytes)
         IN  IF u.ok THEN u.m ELSE <<>>

\* os.Rename(from, to)
rename(files, from, to) ==
    IF from = to THEN files
    ELSE [files EXCEPT ![to] = files[from], ![from] = NoFile]

\* the file does not exist or holds a whole snapshot
Whole(f) == ~f.exists \/ jsonUnmarshal(f.bytes).ok

FlushWords == {Legends, ZzqxCap}
FlushWorlds ==
    [word \in FlushWords |-> {OnlyFrom("online", word), OnlyFrom("none", word)}]
MaxCrashes == 1

InitFlush ==
    /\ LemmaIdle /\ DedupeIdle /\ DaemonIdle
    /\ now = StartTime /\ ticks = 0
    /\ mem = newLRU(memCacheMax, cacheTTL)
    /\ recency = <<>> /\ lastOp = [op |-> "none"]
    /\ noOffline = FALSE
    /\ fs = [p \in {CachePath, tmpPath(CachePath)} |-> NoFile]
    /\ disk = loadDiskCache(fs, CachePath)
    /\ diskDirty = FALSE
    /\ lastTxt = <<>>
    /\ nCalls = 0
    /\ lastCall = [path |-> "none", word |-> <<>>]
    /\ diskMu = "free"
    /\ fpc = "idle"
    /\ buf = <<>>
    /\ snapOld = <<>> /\ snapNew = <<>>
    /\ crashes = 0
    /\ crashLog = [at |-> "none"]

\* a lock that anybody may take at any time
DiskMuNoExclusion(mu) == TRUE

\* a lock that keeps the flush task out and lets every handler in
DiskMuHandlersShare(mu) == mu \in {"free", "handler"}

\* diskMu.Lock() returns (lines 794 and 828)
DiskMuFree(mu) == mu = "free"

\* lines 828-830: a handler resolves a word while it holds diskMu
HandlerResolve(word, resp) ==
    /\ DiskMuFree(diskMu)
    /\ Resolve(word, resp)

\* lines 793-795 and 282: the ticker fires, the flush task takes diskMu and,
\* when the map is dirty, marshals it; otherwise it unlocks at once (line 799)
FlushBegin ==
    /\ fpc = "idle"
    /\ DiskMuFree(diskMu)
    /\ IF diskDirty
       THEN /\ diskMu' = "flush"
            /\ fpc' = "open"
            /\ buf' = jsonMarshal(disk)
            /\ snapOld' = loadDiskCache(fs, CachePath)
            /\ snapNew' = disk
       ELSE UNCHANGED <<diskMu, fpc, buf, snapOld, snapNew>>
    /\ UNCHANGED <<lemmaVars, daemonVars, clockVars, lruVars, dedupeVars,
                   resolveVars,
                   fs, crashes, crashLog>>

\* line 286, os.WriteFile: the temporary file is created or truncated
WriteOpen ==
    /\ fpc = "open"
    /\ fs' = [fs EXCEPT ![tmpPath(CachePath)] = [exists |-> TRUE, bytes |-> <<>>]]
    /\ fpc' = "write"
    /\ UNCHANGED <<lemmaVars, daemonVars, clockVars, lruVars, dedupeVars,
                   resolveVars,
                   diskMu, buf, snapOld, snapNew, crashes, crashLog>>

\* line 286, os.WriteFile: the next piece is written; after the last one the
\* file is closed
WritePiece ==
    /\ fpc = "write"
    /\ LET f == fs[tmpPath(CachePath)]
           n == Len(f.bytes)
       IN  /\ n < Len(buf)
           /\ fs' = [fs EXCEPT ![tmpPath(CachePath)].bytes = Append(f.bytes, buf[n + 1])]
           /\ fpc' = IF n + 1 = Len(buf) THEN "rename" ELSE "write"
    /\ UNCHANGED <<lemmaVars, daemonVars, clockVars, lruVars, dedupeVars,
                   resolveVars,
                   diskMu, buf, snapOld, snapNew, crashes, crashLog>>

\* lines 286-288: os.WriteFile fails (opening or writing): no rename
WriteFails ==
    /\ fpc \in {"open", "write"}
    /\ fpc' = "saved"
    /\ UNCHANGED <<lemmaVars, daemonVars, clockVars, lruVars, dedupeVars,
                   resolveVars,
                   fs, diskMu, buf, snapOld, snapNew, crashes, crashLog>>

\* line 289: os.Rename(tmp, path); its error is dropped
Rename(ok) ==
    /\ fpc = "rename"
    /\ fs' = IF ok THEN rename(fs, tmpPath(CachePath), CachePath) ELSE fs
    /\ fpc' = "saved"
    /\ UNCHANGED <<lemmaVars, daemonVars, clockVars, lruVars, dedupeVars,
                   resolveVars,
                   diskMu, buf, snapOld, snapNew, crashes, crashLog>>

\* lines 797-799: diskDirty = false; diskMu.Unlock()
FlushEnd ==
    /\ fpc = "saved"
    /\ diskDirty' = FALSE
    /\ diskMu' = "free"
    /\ fpc' = "idle"
    /\ UNCHANGED <<lemmaVars, daemonVars, clockVars, lruVars, dedupeVars,
                   noOffline, disk, lastTxt, nCalls, lastCall,
                   fs, buf, snapOld, snapNew, crashes, crashLog>>

\* the process dies at any point; the next process starts with an empty
\* memory cache and loads the cache file (lines 774, 785-788)
CrashAndReload ==
    /\ crashes < MaxCrashes
    /\ crashes' = crashes + 1
    /\ mem' = newLRU(memCacheMax, cacheTTL)
    /\ disk' = loadDiskCache(fs, CachePath)
    /\ diskDirty' = FALSE
    /\ diskMu' = "free"
    /\ fpc' = "idle"
    /\ buf' = <<>>
    /\ crashLog' = [at |-> fpc, old |-> snapOld, new |-> snapNew,
                    loaded |-> loadDiskCache(fs, CachePath),
                    tmp |-> fs[tmpPath(CachePath)]]
    /\ UNCHANGED <<lemmaVars, daemonVars, clockVars, recency, lastOp,
                   dedupeVars,
                   noOffline, lastTxt, nCalls, lastCall, fs, snapOld, snapNew>>

NextFlush ==
    \/ \E word \in FlushWords : \E resp \in FlushWorlds[word] :
            HandlerResolve(word, resp)
    \/ FlushBegin
    \/ WriteOpen
    \/ WritePiece
    \/ WriteFails
    \/ \E ok \in BOOLEAN : Rename(ok)
    \/ FlushEnd
    \/ CrashAndReload

SpecFlush == InitFlush /\ [][NextFlush]_vars

\* C10: at every point of a save the cache file is absent or holds a whole
\* snapshot, which is the one it held when the save began or the map being
\* saved; a process that starts after a crash at any such point loads one of
\* these two, never part of a snapshot.
C10_AtomicReplace ==
    /\ Whole(fs[CachePath])
    /\ fpc # "idle" => loadDiskCache(fs, CachePath) \in {snapOld, snapNew}
    /\ crashLog.at \notin {"none", "idle"} =>
            crashLog.loaded \in {crashLog.old, crashLog.new}

\* the process died while the temporary file held part of a snapshot with two
\* entries; the next process loaded the previous snapshot with one entry
C10_Witness ==
    /\ crashLog.at = "write"
    /\ crashLog.tmp.exists /\ ~Whole(crashLog.tmp)
    /\ Len(crashLog.tmp.bytes) = 2
    /\ DOMAIN crashLog.new = {Legends, Zzqx}
    /\ Cardinality(DOMAIN crashLog.old) = 1
    /\ crashLog.loaded = crashLog.old
    /\ disk = crashLog.old

(***************************************************************************)
(* Flush failures, last.txt, write-through and the display header          *)
(***************************************************************************)
\* C11 as stated: when the file write of a flush fails, the persisted tier
\* stays dirty until a write has succeeded: whenever the flush task is idle
\* and the dirty flag is clear, the cache file holds the persisted map.
C11_AsStated ==
    (fpc = "idle" /\ ~diskDirty) => loadDiskCache(fs, CachePath) = disk

\* C12 as stated: after every completed resolveDefinition call, whichever
\* tier served it, last.txt holds the full text of that call.
C12_AsStated ==
    lastCall.path # "none" => lastTxt = lastCall.full

\* "legends" was resolved by the chain and then "Zzqx" was served from the
\* persisted map: last.txt still holds the text of "legends"
C12_Witness ==
    /\ nCalls = 2
    /\ lastCall.prev = Legends /\ lastCall.word = ZzqxCap
    /\ lastCall.path = "disk"
    /\ lastTxt # <<>> /\ lastTxt # lastCall.full

\* the memory item of key
MemItem(c, key) == c.ll[ElemOf(c, key)]

\* C14: a resolveDefinition call that ran the provider chain ends with the new
\* entry for the lowercased key in the memory tier and in the persisted map,
\* both with the returned (title, body, full, source) and the time of the
\* call, and with the dirty flag set.
C14_WriteThrough ==
    [][(IsCall /\ lastCall'.path = "chain")
       => LET key == ToLower(lastCall'.word)
          IN  /\ key \in mem'.items
              /\ key \in DOMAIN disk'
              /\ diskDirty'
              /\ LET it == MemItem(mem', key)
                     de == disk'[key]
                 IN  /\ <<it.title, it.body, it.full, it.src>> = Returned(lastCall')
                     /\ <<de.title, de.body, de.full, de.source>> =
                            Returned(lastCall')
                     /\ it.ts = now /\ de.ts = now
      ]_vars

\* "legends" resolved by the secondary provider is in both tiers, and the
\* persisted map is dirty
C14_Witness ==
    /\ lastCall.path = "chain"
    /\ lastCall.word = Legends
    /\ lastCall.source = "wiktionary"
    /\ Legends \in mem.items
    /\ Legends \in DOMAIN disk
    /\ disk[Legends].full = MemItem(mem, Legends).full
    /\ disk[Legends].full = wiktionaryText(Legends)
    /\ diskDirty

\* the chain ran and a lemma candidate other than the requested word produced
\* the result
OtherLemmaHit ==
    /\ lastCall.calls[Len(lastCall.calls)].ok
    /\ UsedLemma # ToLower(lastCall.word)

\* C20 as stated: the header of the display shows "Requested -> Used" exactly
\* when a lemma candidate other than the requested word produced the result,
\* and the plain capitalised word otherwise, also for mixed-case words and
\* for words no provider knows.
C20_AsStated ==
    lastCall.path = "chain" =>
        IF OtherLemmaHit
        THEN HasPrefix(lastCall.body, BodyOpen \o ArrowForm \o BodyClose)
        ELSE HasPrefix(lastCall.body,
                       BodyOpen \o cap1(lastCall.word) \o BodyClose)

\* "Zzqx", which no provider knows, is shown as "Zzqx -> Zzqx"
C20_Witness ==
    /\ AllFailed
    /\ lastCall.word = ZzqxCap
    /\ HasPrefix(lastCall.body,
                 BodyOpen \o <<"Z","z","q","x"," ","->"," ","Z","z","q","x">>
                    \o BodyClose)

(***************************************************************************)
(* The daemon: the accept loop, one handler per connection, and the flush  *)
(* task, all running concurrently.  A handler is at "read", "allow",       *)
(* "lock" (waiting for diskMu), "enter" (about to look in the caches),     *)
(* "chain" (inside the provider calls), "hung" (inside a provider call     *)
(* that never returns), "unlock" or "notify"; "idle" is a free slot.       *)
(***************************************************************************)
maxWordLen == 64

Digits == {"0","1","2","3","4","5","6","7","8","9"}
Letters == {UpperChars[i] : i \in 1..26} \cup {LowerChars[i] : i \in 1..26}

\* the characters of the class [\w\-'] of wordRe (line 61)
WordChar(c) == c \in Letters \cup Digits \cup {"_", "-", "'"}

\* the ASCII characters of the cutset of strings.Trim (line 215)
CutChars ==
    {" ", "\t", "\r", "\n", "\"", ".", ",", ";", ":", "!", "?",
     "(", ")", "[", "]", "{", "}"}

\* s[:i] for the first i with s[i] = "\n" (lines 212-214)
CutAtNewline(s) ==
    IF \E i \in 1..Len(s) : s[i] = "\n"
    THEN SubSeq(s, 1, (CHOOSE i \in 1..Len(s) :
                        /\ s[i] = "\n"
                        /\ \A j \in 1..(i - 1) : s[j] # "\n") - 1)
    ELSE s

RECURSIVE TrimCutLeft(_)
TrimCutLeft(s) ==
    IF s # <<>> /\ Head(s) \in CutChars THEN TrimCutLeft(Tail(s)) ELSE s
RECURSIVE TrimCutRight(_)
TrimCutRight(s) ==
    IF s # <<>> /\ s[Len(s)] \in CutChars
    THEN TrimCutRight(SubSeq(s, 1, Len(s) - 1)) ELSE s

\* the characters of s before its first white space
UpToSpace(s) ==
    IF \E i \in 1..Len(s) : IsSpace(s[i])
    THEN SubSeq(s, 1, (CHOOSE i \in 1..Len(s) :
                        /\ IsSpace(s[i])
                        /\ \A j \in 1..(i - 1) : ~IsSpace(s[j])) - 1)
    ELSE s

\* strings.Fields(s)[0], or the empty string when there is no field
FirstField(s) == With(TrimLeft(s), LAMBDA t : UpToSpace(t))

\* lines 207-224
pickWord(s) ==
    With(TrimSpace(s), LAMBDA trimmed :
        With(CutAtNewline(trimmed), LAMBDA line :
            With(TrimCutRight(TrimCutLeft(line)), LAMBDA bare :
                FirstField(bare))))

\* a check that lets every word pass
validWordAny(w) == TRUE

\* lines 226-228
validWord(w) ==
    /\ w # <<>>
    /\ Len(w) <= maxWordLen
    /\ \A i \in 1..Len(w) : WordChar(w[i])

\* what a client may send: a word with white space and punctuation around it,
\* nothing but white space, a word of maxWordLen + 1 letters, a word with a
\* character outside the class
RawLegends == <<" ">> \o Legends \o <<".", "\n">>
RawEmpty == <<" ", "\n">>
RawLong == [i \in 1..(maxWordLen + 1) |-> "a"]
RawBad == <<"l", "$", "g">>
RawInputs == {RawLegends, RawEmpty, RawLong, RawBad}

MaxConns == 2
MaxDaemonTicks == 1
DaemonSteps == {dedupeWindow}
\* how the providers answer for word: the primary knows it, or only the
\* offline dictionary does
DaemonWorlds(word) == {OnlyFrom("online", word), OnlyFrom("offline", word)}

NoResult == [racing |-> FALSE, title |-> <<>>, body |-> <<>>, full |-> <<>>]

\* lines 774-803: the daemon has started; there is no cache file yet
InitDaemon ==
    /\ LemmaIdle
    /\ now = StartTime /\ ticks = 0
    /\ mem = newLRU(memCacheMax, cacheTTL)
    /\ recency = <<>> /\ lastOp = [op |-> "none"]
    /\ ded = <<>> /\ dmu = 0
    /\ hpc = [h \in Handlers |-> "idle"]
    /\ hkey = [h \in Handlers |-> <<>>]
    /\ hnow = <<>> /\ hseen = <<>> /\ allowLog = <<>>
    /\ noOffline = FALSE
    /\ fs = [p \in {CachePath, tmpPath(CachePath)} |-> NoFile]
    /\ disk = loadDiskCache(fs, CachePath)
    /\ diskDirty = FALSE
    /\ lastTxt = <<>>
    /\ nCalls = 0
    /\ lastCall = [path |-> "none", word |-> <<>>]
    /\ diskMu = "free"
    /\ fpc = "idle"
    /\ buf = <<>>
    /\ snapOld = <<>> /\ snapNew = <<>>
    /\ crashes = 0
    /\ crashLog = [at |-> "none"]
    /\ conns = 0
    /\ hword = [h \in Handlers |-> <<>>]
    /\ hres = [h \in Handlers |-> NoResult]
    /\ notified = <<>>
    /\ resolved = <<>>

\* an accept loop that runs the handler itself and accepts again when the
\* handler has returned
LoopFreeInline(pcs) == \A h \in DOMAIN pcs : pcs[h] = "idle"

\* lines 805-810: the loop is at ln.Accept() again as soon as it has started
\* the goroutine of the handler
LoopFree(pcs) == TRUE

\* lines 806 and 810: a connection is accepted and handed to a new handler
\* (the free slot with the lowest number); the client has sent raw
Accept(h, raw) ==
    /\ LoopFree(hpc)
    /\ conns < MaxConns
    /\ hpc[h] = "idle"
    /\ \A g \in Handlers : g < h => hpc[g] # "idle"
    /\ conns' = conns + 1
    /\ hpc' = [hpc EXCEPT ![h] = "read"]
    /\ hword' = [hword EXCEPT ![h] = raw]
    /\ hres' = [hres EXCEPT ![h] = NoResult]
    /\ UNCHANGED <<lemmaVars, clockVars, lruVars, resolveVars, flushVars,
                   ded, dmu, hkey, hnow, hseen, allowLog, notified, resolved>>

\* lines 814-823: the handler reads, decodes the word and returns when it is
\* not valid; otherwise key := strings.ToLower(word)
HRead(h) ==
    /\ hpc[h] = "read"
    /\ \E w \in {pickWord(hword[h])} :
        IF validWord(w)
        THEN /\ hpc' = [hpc EXCEPT ![h] = "allow"]
             /\ hword' = [hword EXCEPT ![h] = w]
             /\ hkey' = [hkey EXCEPT ![h] = ToLower(w)]
        ELSE /\ hpc' = [hpc EXCEPT ![h] = "idle"]
             /\ UNCHANGED <<hword, hkey>>
    /\ UNCHANGED <<lemmaVars, clockVars, lruVars, resolveVars, flushVars,
                   ded, dmu, hnow, hseen, allowLog,
                   conns, hres, notified, resolved>>

\* the key of handler h is being resolved by another handler
Racing(h) ==
    \E g \in Handlers \ {h} :
        hkey[g] = hkey[h] /\ hpc[g] \in {"lock", "enter", "chain"}

\* lines 824-826: ded.allow(key), in one step
HAllow(h) ==
    /\ hpc[h] = "allow"
    /\ MutexFree(dmu)
    /\ IF InWindow(ded, hkey[h], now)
       THEN /\ hpc' = [hpc EXCEPT ![h] = "idle"]
            /\ UNCHANGED <<ded, hres>>
       ELSE /\ ded' = StoreLast(ded, hkey[h], now)
            /\ hpc' = [hpc EXCEPT ![h] = "lock"]
            /\ hres' = [hres EXCEPT ![h].racing = Racing(h)]
    /\ UNCHANGED <<lemmaVars, clockVars, lruVars, resolveVars, flushVars,
                   dmu, hkey, hnow, hseen, allowLog,
                   conns, hword, notified, resolved>>

\* line 828: diskMu.Lock() returns
HLock(h) ==
    /\ hpc[h] = "lock"
    /\ DiskMuFree(diskMu)
    /\ diskMu' = "handler"
    /\ hpc' = [hpc EXCEPT ![h] = "enter"]
    /\ UNCHANGED <<lemmaVars, clockVars, lruVars, ded, dmu, hkey, hnow, hseen, allowLog,
                   resolveVars, daemonVars,
                   fs, fpc, buf, snapOld, snapNew, crashes, crashLog>>

\* the record of a finished resolveDefinition call
Finished(h, r) ==
    [h |-> h, key |-> hkey[h], path |-> r.path, at |-> now,
     racing |-> hres[h].racing]

\* lines 829 and 603-616: resolveDefinition looks in the memory tier and in
\* the persisted map; a hit returns, a miss goes on to the providers
HEnter(h) ==
    /\ hpc[h] = "enter"
    /\ \E r \in {resolveDefinition(noOffline, mem, disk, diskDirty, lastTxt,
                                    hword[h], OnlyFrom("none", hword[h]), now)} :
        IF r.path = "chain"
        THEN /\ mem' = lruGet(mem, hkey[h], now).c
             /\ hpc' = [hpc EXCEPT ![h] = "chain"]
             /\ UNCHANGED <<hres, resolved>>
        ELSE /\ mem' = r.mem
             /\ hpc' = [hpc EXCEPT ![h] = "unlock"]
             /\ hres' = [hres EXCEPT ![h].title = r.title, ![h].body = r.body,
                                     ![h].full = r.full]
             /\ resolved' = Append(resolved, Finished(h, r))
    /\ UNCHANGED <<lemmaVars, clockVars, recency, lastOp, resolveVars,
                   flushVars, ded, dmu, hkey, hnow, hseen, allowLog,
                   conns, hword, notified>>

\* lines 618-664: the provider calls have returned; the result is stored
HChain(h, resp) ==
    /\ hpc[h] = "chain"
    /\ \E r \in {resolveMiss(noOffline, mem, disk, hkey[h], hword[h], resp,
                              now)} :
        /\ mem' = r.mem
        /\ disk' = r.disk
        /\ diskDirty' = r.dirty
        /\ lastTxt' = r.last
        /\ hres' = [hres EXCEPT ![h].title = r.title, ![h].body = r.body,
                                ![h].full = r.full]
        /\ resolved' = Append(resolved, Finished(h, r))
    /\ hpc' = [hpc EXCEPT ![h] = "unlock"]
    /\ UNCHANGED <<lemmaVars, clockVars, recency, lastOp, flushVars,
                   noOffline, nCalls, lastCall,
                   ded, dmu, hkey, hnow, hseen, allowLog,
                   conns, hword, notified>>

\* the chain gets as far as the offline provider
AsksOffline(word, resp) ==
    \E c \in Range(runChain(noOffline, word, resp).calls) : c.prov = "offline"

\* lines 500-501 and 503-504: cmd.Output() waits for the dict process, which
\* is started by exec.Command without a deadline; the process never exits
HOfflineHangs(h, resp) ==
    /\ hpc[h] = "chain"
    /\ AsksOffline(hword[h], resp)
    /\ hpc' = [hpc EXCEPT ![h] = "hung"]
    /\ UNCHANGED <<lemmaVars, clockVars, lruVars, resolveVars, flushVars,
                   daemonVars, ded, dmu, hkey, hnow, hseen, allowLog>>

\* line 830: diskMu.Unlock()
HUnlock(h) ==
    /\ hpc[h] = "unlock"
    /\ diskMu' = "free"
    /\ hpc' = [hpc EXCEPT ![h] = "notify"]
    /\ UNCHANGED <<lemmaVars, clockVars, lruVars, resolveVars, daemonVars,
                   ded, dmu, hkey, hnow, hseen, allowLog,
                   fs, fpc, buf, snapOld, snapNew, crashes, crashLog>>

\* line 832: notifyDBusAndHandleClick(p, title, body, full); the handler ends
HNotify(h) ==
    /\ hpc[h] = "notify"
    /\ notified' = Append(notified, [h |-> h, title |-> hres[h].title,
                                     body |-> hres[h].body,
                                     full |-> hres[h].full])
    /\ hpc' = [hpc EXCEPT ![h] = "idle"]
    /\ UNCHANGED <<lemmaVars, clockVars, lruVars, resolveVars, flushVars,
                   ded, dmu, hkey, hnow, hseen, allowLog,
                   conns, hword, hres, resolved>>

DaemonTick(d) ==
    /\ Tick(d, MaxDaemonTicks)
    /\ UNCHANGED <<lemmaVars, lruVars, dedupeVars, resolveVars, flushVars,
                   daemonVars>>

\* the daemon sits idle until every cached item has expired
DaemonSleep ==
    /\ \A h \in Handlers : hpc[h] = "idle"
    /\ fpc = "idle"
    /\ Tick(cacheTTL + 1, MaxDaemonTicks)
    /\ UNCHANGED <<lemmaVars, lruVars, dedupeVars, resolveVars, flushVars,
                   daemonVars>>

\* the steps of the handler in slot h
HandlerStep(h) ==
    \/ HRead(h)
    \/ HAllow(h)
    \/ HLock(h)
    \/ HEnter(h)
    \/ hpc[h] = "chain" /\ \E resp \in DaemonWorlds(hword[h]) : HChain(h, resp)
    \/ HUnlock(h)
    \/ HNotify(h)

NextDaemon ==
    \/ \E h \in Handlers, raw \in RawInputs : Accept(h, raw)
    \/ \E h \in Handlers : HandlerStep(h)
    \/ \E h \in Handlers :
            hpc[h] = "chain" /\ \E resp \in DaemonWorlds(hword[h]) :
                                    HOfflineHangs(h, resp)
    \/ FlushBegin
    \/ WriteOpen
    \/ WritePiece
    \/ WriteFails
    \/ \E ok \in BOOLEAN : Rename(ok)
    \/ FlushEnd
    \/ \E d \in DaemonSteps : DaemonTick(d)
    \/ DaemonSleep

SpecDaemon == InitDaemon /\ [][NextDaemon]_vars

\* the scheduler runs every handler that can take a step
SpecDaemonLive ==
    SpecDaemon /\ \A h \in Handlers : WF_vars(HandlerStep(h))

\* the decoded word is empty, longer than the bound or has a character
\* outside the class
Malformed(w) ==
    \/ w = <<>>
    \/ Len(w) > maxWordLen
    \/ \E i \in 1..Len(w) : ~WordChar(w[i])

\* C13: the step with which a handler leaves its read with an empty, oversized
\* or malformed decoded word ends the handler and changes nothing else: the
\* memory tier, the persisted map, the dirty flag, the dedupe map, last.txt,
\* the files and diskMu stay as they are, no resolution is made (so no
\* provider is called) and no notification is dispatched.
C13_InvalidDropped ==
    [][\A h \in Handlers :
        (/\ hpc[h] = "read"
         /\ hpc'[h] # "read"
         /\ Malformed(pickWord(hword[h])))
        => /\ hpc'[h] = "idle"
           /\ UNCHANGED <<mem, disk, diskDirty, ded, lastTxt, notified,
                          resolved, fs, diskMu>>
      ]_vars

\* the first connection carried maxWordLen + 1 letters: its handler has ended
\* and nothing was touched
C13_Witness ==
    /\ conns = 1
    /\ hpc[1] = "idle"
    /\ hword[1] = RawLong
    /\ Len(pickWord(hword[1])) = maxWordLen + 1
    /\ ded = <<>> /\ mem.items = {} /\ DOMAIN disk = {}
    /\ resolved = <<>> /\ notified = <<>>

\* C15 as stated: every handler that enters resolveDefinition eventually
\* releases diskMu, dispatches its result and ends.
C15_AsStated ==
    \A h \in Handlers : (hpc[h] = "enter") ~> (hpc[h] = "idle")

\* a handler sits in the offline provider call and holds diskMu
C15_Witness ==
    /\ hpc[1] = "hung"
    /\ diskMu = "handler"
    /\ hpc[2] = "lock"

FlushWriting == fpc \in {"open", "write", "rename"}

\* C16 as stated: while the flush task is writing the snapshot file, a handler
\* that calls resolveDefinition gets diskMu without waiting for the write.
C16_AsStated ==
    \A h \in Handlers : (hpc[h] = "lock" /\ FlushWriting) => ENABLED HLock(h)

\* the flush task is in the middle of os.WriteFile and a handler waits for
\* diskMu
C16_Witness ==
    /\ fpc = "write"
    /\ diskMu = "flush"
    /\ \E h \in Handlers : hpc[h] = "lock"

\* C17 as stated: a handler admitted by the dedupe guard while another handler
\* was resolving the same word runs the provider chain as well.
C17_AsStated ==
    \A j \in 1..Len(resolved) :
        (resolved[j].racing /\
            \E i \in 1..(j - 1) :
                resolved[i].key = resolved[j].key /\ resolved[i].path = "chain")
        => resolved[j].path = "chain"

\* C17 amended: in the daemon resolveDefinition runs under diskMu from its
\* first cache lookup to its return, so of two handlers for the same
\* unresolved word the second finds the entry of the first in the memory tier:
\* the chain is never run twice for one key unless the memory item of the
\* first run has expired in between.
C17_OneChainPerKey ==
    \A i, j \in 1..Len(resolved) :
        (/\ i < j
         /\ resolved[i].key = resolved[j].key
         /\ resolved[i].path = "chain"
         /\ resolved[j].at - resolved[i].at <= cacheTTL)
        => resolved[j].path = "mem"

\* the second handler was admitted while the first was resolving "legends",
\* and was served from the memory tier
C17_Witness ==
    /\ Len(resolved) = 2
    /\ resolved[1].h # resolved[2].h
    /\ resolved[1].key = Legends /\ resolved[2].key = Legends
    /\ resolved[1].path = "chain"
    /\ resolved[2].racing
    /\ resolved[2].at >= resolved[1].at
    /\ resolved[2].path = "mem"

\* handler h is between diskMu.Lock() and diskMu.Unlock()
InCritical(h) == hpc[h] \in {"enter", "chain", "hung", "unlock"}
Holders ==
    Cardinality({h \in Handlers : InCritical(h)})
        + (IF fpc # "idle" THEN 1 ELSE 0)

\* C18: under every interleaving at most one task (a handler or the flush
\* task) is between Lock and Unlock of diskMu, and every step that changes the
\* persisted map, the dirty flag or the memory tier is a step of the task
\* that holds diskMu; each memory-tier get or set is one step.
C18_Exclusive ==
    /\ [](Holders <= 1 /\ (diskMu = "free" <=> Holders = 0))
    /\ [][(disk' # disk \/ diskDirty' # diskDirty \/ mem' # mem)
            => diskMu # "free" /\ Holders = 1]_vars

\* the first handler is inside the provider calls and holds diskMu, the
\* second waits for it, and the flush task is idle
C18_Witness ==
    /\ hpc[1] = "chain"
    /\ hpc[2] = "lock"
    /\ diskMu = "handler"
    /\ fpc = "idle"
    /\ Holders = 1

AcceptAny == \E h \in Handlers, raw \in RawInputs : Accept(h, raw)

\* C19: whatever the handlers and the flush task are doing, the accept loop
\* can accept a connection and start its handler (as long as the model has a
\* connection and a handler slot left).
C19_AcceptFree ==
    (conns < MaxConns /\ \E h \in Handlers : hpc[h] = "idle")
        => ENABLED AcceptAny

\* a connection was accepted while the first handler was inside the provider
\* calls, holding diskMu
C19_Witness ==
    /\ hpc[1] = "chain"
    /\ hpc[2] = "read"
    /\ diskMu = "handler"
    /\ conns = 2

(***************************************************************************)
(* The age of what the cache serves.  In the resolver the persisted map    *)
(* holds, for every key of the memory tier, the entry the memory item came *)
(* from (lines 613, 660-661), and its ts is the time of the chain run.     *)
(***************************************************************************)
ServedFromCache == lastCall.path \in {"mem", "disk"}
Origin == disk[ToLower(lastCall.word)]

\* C21 as stated: every result served from the memory tier or the persisted
\* map was produced by a provider-chain run at most 30 days before the call.
C21_AsStated ==
    ServedFromCache =>
        /\ ToLower(lastCall.word) \in DOMAIN disk
        /\ Returned(lastCall) =
              <<Origin.title, Origin.body, Origin.full, Origin.source>>
        /\ lastCall.at - Origin.ts <= cacheTTL

\* an entry resolved 30 days before the start was promoted, and 30 days later
\* the memory tier served it again: 60 days after the chain run
C21_Witness ==
    /\ nCalls = 2
    /\ lastCall.path = "mem"
    /\ lastCall.prev = lastCall.word
    /\ ToLower(lastCall.word) \in DOMAIN disk
    /\ Returned(lastCall) =
          <<Origin.title, Origin.body, Origin.full, Origin.source>>
    /\ lastCall.stamp = StartTime
    /\ lastCall.at - Origin.ts = 2 * cacheTTL

(***************************************************************************)
(* One daemon process whose file writes succeed: handlers resolve words    *)
(* under diskMu and the flush task saves the map; os.WriteFile and         *)
(* os.Rename never fail and the process does not die.                      *)
(***************************************************************************)
OkWords == {Legends, Cafe}
OkWorlds ==
    [word \in OkWords |-> {OnlyFrom("online", word), OnlyFrom("wiktionary", word)}]

NextFlushOk ==
    \/ \E word \in OkWords : \E resp \in OkWorlds[word] :
            HandlerResolve(word, resp)
    \/ FlushBegin
    \/ WriteOpen
    \/ WritePiece
    \/ Rename(TRUE)
    \/ FlushEnd

SpecFlushOk == InitFlush /\ [][NextFlushOk]_vars

ValidUTF8(s) == \A i \in 1..Len(s) : ValidUTF8At(s, i)
ValidEntry(e) == ValidUTF8(e.title) /\ ValidUTF8(e.body) /\ ValidUTF8(e.full)

\* C22 as stated: whenever diskMu is free and diskDirty is false, what
\* loadDiskCache reads from the cache file (the empty map when the file is
\* absent or unreadable) equals the persisted map of the process.
C22_AsStated ==
    (diskMu = "free" /\ ~diskDirty) => loadDiskCache(fs, CachePath) = disk

\* the same for a map whose texts are well-formed UTF-8
C22_ValidText ==
    (diskMu = "free" /\ ~diskDirty /\ \A k \in DOMAIN disk : ValidEntry(disk[k]))
        => loadDiskCache(fs, CachePath) = disk

\* the flush task writes only while it holds diskMu with the flag set, and
\* the flag is false when it gives diskMu back
C22_FlushDiscipline ==
    [][/\ (fs' # fs => diskMu = "flush" /\ diskDirty)
       /\ (diskMu = "flush" /\ diskMu' = "free" => ~diskDirty')]_vars

\* "cafe" was resolved from the long definition, the flush task saved the
\* map and gave diskMu back; the body in the file differs from the body in
\* the process
C22_Witness ==
    /\ diskMu = "free" /\ ~diskDirty /\ fpc = "idle"
    /\ Cafe \in DOMAIN disk
    /\ disk[Cafe].source = "wiktionary"
    /\ disk[Cafe].body[Len(BodyOpen \o Cafe \o BodyClose) + bodyMaxChars - 80]
          = LeadByte
    /\ fs[CachePath].exists
    /\ Cafe \in DOMAIN loadDiskCache(fs, CachePath)
    /\ loadDiskCache(fs, CachePath)[Cafe].body # disk[Cafe].body
    /\ loadDiskCache(fs, CachePath)[Cafe].full = disk[Cafe].full

(***************************************************************************)
(* The shape of the memory cache                                           *)
(***************************************************************************)
\* C23: after any sequence of get and set calls the cache holds at most max
\* entries, and the recency list and the key index hold exactly the same
\* keys, each key once in the list.
C23_ListMatchesIndex ==
    /\ Len(mem.ll) <= mem.max
    /\ Cardinality(mem.items) <= mem.max
    /\ ListKeys(mem) = mem.items
    /\ \A i, j \in 1..Len(mem.ll) : mem.ll[i].key = mem.ll[j].key => i = j

\* two TTLs after its first sets a cache of capacity 2 is full again: two of
\* the four keys it has held are gone (evicted or expired), the last call was
\* the set of a new key and the call before it a get that no longer found a
\* key the cache had held
C23_Witness ==
    /\ mem.max = 2
    /\ Len(mem.ll) = 2
    /\ now = 2 * cacheTTL
    /\ mem.ll[2].ts = 0
    /\ lastOp.op = "set"
    /\ mem.ll[1].key = lastOp.key /\ mem.ll[1].ts = now
    /\ lastOp.prev[1] = "get" /\ lastOp.prev[3] = FALSE
    /\ lastOp.prev[2] \in Range(recency)
    /\ Cardinality(Range(recency) \ mem.items) = 2

(***************************************************************************)
(* The round trip of the persisted map: saveDiskCacheAtomic, then          *)
(* loadDiskCache, on maps whose entries resolveDefinition built            *)
(***************************************************************************)
\* os.WriteFile(path, b) as a whole
writeFile(files, path, b) ==
    [files EXCEPT ![path] = [exists |-> TRUE, bytes |-> b]]

\* lines 280-290; wok and rok: os.WriteFile and os.Rename succeed
saveDiskCacheAtomic(files, path, m, wok, rok) ==
    IF ~wok THEN files
    ELSE With(writeFile(files, tmpPath(path), jsonMarshal(m)), LAMBDA f :
            IF rok THEN rename(f, tmpPath(path), path) ELSE f)

Accented == <<"c", "a", "f", LeadByte, ContByte>>
Markup == <<"a", " ", "<", " ", "b", " ", "&", " ", "c", ">">>

\* the texts a provider may have returned, each with its source
RoundTripTexts ==
    {<<primaryText(Legend), "online">>, <<Markup, "online">>,
     <<Accented, "wiktionary">>, <<LongText, "wiktionary">>}
RoundTripTimes == {0, StartTime}

\* lines 654-661: the entry resolveDefinition stores for word when the chain
\* returned text from src at time ts
madeEntry(word, text, src, ts) ==
    storeResult(newLRU(memCacheMax, cacheTTL), <<>>, ToLower(word), word,
                [out |-> text, used |-> ToLower(word), source |-> src,
                 calls |-> <<>>], ts).disk[ToLower(word)]

RoundTripEntries(word) ==
    {madeEntry(word, x[1], x[2], ts) : x \in RoundTripTexts, ts \in RoundTripTimes}

RoundTripKeys == {Cafe, Legends}

\* the maps over the keys of RoundTripKeys
RoundTripMaps ==
    UNION {[ks -> UNION {RoundTripEntries(k) : k \in ks}] :
            ks \in SUBSET RoundTripKeys}

InitRoundTrip ==
    /\ LemmaIdle /\ ClockIdle /\ LruIdle /\ DedupeIdle /\ DaemonIdle
    /\ noOffline = FALSE
    /\ disk \in {m \in RoundTripMaps :
                    \A k \in DOMAIN m : m[k] \in RoundTripEntries(k)}
    /\ diskDirty = TRUE
    /\ lastTxt = <<>> /\ nCalls = 0
    /\ lastCall = [path |-> "none", word |-> <<>>]
    /\ fs = [p \in {CachePath, tmpPath(CachePath)} |-> NoFile]
    /\ diskMu = "free" /\ fpc = "idle" /\ buf = <<>>
    /\ snapOld = <<>> /\ snapNew = <<>>
    /\ crashes = 0 /\ crashLog = [at |-> "none"]

\* saveDiskCacheAtomic(path, disk)
SaveCall(wok, rok) ==
    /\ fpc \in {"idle", "loaded"}
    /\ fs' = saveDiskCacheAtomic(fs, CachePath, disk, wok, rok)
    /\ snapNew' = disk
    /\ crashLog' = [at |-> "save", ok |-> wok /\ rok]
    /\ fpc' = "written"
    /\ UNCHANGED <<lemmaVars, daemonVars, clockVars, lruVars, dedupeVars,
                   resolveVars, diskMu, buf, snapOld, crashes>>

\* disk = loadDiskCache(path)
LoadCall ==
    /\ fpc = "written"
    /\ disk' = loadDiskCache(fs, CachePath)
    /\ fpc' = "loaded"
    /\ UNCHANGED <<lemmaVars, daemonVars, clockVars, lruVars, dedupeVars,
                   noOffline, diskDirty, lastTxt, nCalls, lastCall,
                   fs, diskMu, buf, snapOld, snapNew, crashes, crashLog>>

NextRoundTrip ==
    \/ \E wok, rok \in BOOLEAN : SaveCall(wok, rok)
    \/ LoadCall

SpecRoundTrip == InitRoundTrip /\ [][NextRoundTrip]_vars

RoundTripDone == fpc = "loaded" /\ crashLog.ok

\* C24 as stated: a map written by saveDiskCacheAtomic (the write and the
\* rename succeeding) and read by loadDiskCache has the same keys and, for
\* each key, the same title, body, full, timestamp and source.
C24_AsStated ==
    RoundTripDone =>
        /\ DOMAIN disk = DOMAIN snapNew
        /\ \A k \in DOMAIN snapNew :
              /\ disk[k].title = snapNew[k].title
              /\ disk[k].body = snapNew[k].body
              /\ disk[k].full = snapNew[k].full
              /\ disk[k].ts = snapNew[k].ts
              /\ disk[k].source = snapNew[k].source

\* the same for a map whose texts are well-formed UTF-8
C24_ValidText ==
    (RoundTripDone /\ \A k \in DOMAIN snapNew : ValidEntry(snapNew[k]))
        => disk = snapNew

\* the map held the entry of the long definition for "cafe", whose body ends
\* inside a character; after the round trip every field of the entry but the
\* body is what it was
C24_Witness ==
    /\ RoundTripDone
    /\ DOMAIN disk = DOMAIN snapNew
    /\ Cafe \in DOMAIN snapNew
    /\ ~ValidUTF8(snapNew[Cafe].body)
    /\ disk[Cafe].body # snapNew[Cafe].body
    /\ disk[Cafe].title = snapNew[Cafe].title
    /\ disk[Cafe].full = snapNew[Cafe].full
    /\ disk[Cafe].ts = snapNew[Cafe].ts
    /\ disk[Cafe].source = snapNew[Cafe].source
====
